---- MODULE Spec2Model ----
(***************************************************************************)
(* Model of the two batch workers of the QGIS topodata downloader:         *)
(*   DownloadWorker (src/download_raster_worker.py), the Fetch Stage, and  *)
(*   UnzipWorker    (src/unzip_worker.py),           the Extract Stage.    *)
(*                                                                         *)
(* Each worker is a QObject driven by the Qt event loop.  A handler runs   *)
(* to completion; the signals a QNetworkReply emits back to back           *)
(* (errorOccurred, then finished) run their slots one after the other      *)
(* before the event loop takes the next zero-delay timer.  Signals emitted *)
(* by the workers are recorded, in order, in dw_events and uz_events.      *)
(* An exception that leaves a slot is handed by PyQt to sys.excepthook,    *)
(* which the QGIS host installs: it is counted in `unhandled` and the      *)
(* event loop goes on.                                                     *)
(***************************************************************************)
EXTENDS Integers, Sequences, FiniteSets, TLC

(***************************************************************************)
(* Bounds of the model.                                                    *)
(***************************************************************************)
MaxUrls == 3
MaxProgress == 1
MaxArchives == 3

(***************************************************************************)
(* Generic helpers.                                                        *)
(***************************************************************************)
Last(s) == s[Len(s)]

Range(s) == {s[i] : i \in 1..Len(s)}

SeqsUpTo(S, n) == UNION {[1..k -> S] : k \in 0..n}

\* os.path.join(dir, name) and os.path.basename(path) on a path held as the
\* sequence of its components.
join(dir, name) == Append(dir, name)

basename(path) == IF Len(path) = 0 THEN <<>> ELSE Last(path)

\* File names are sequences of characters, paths sequences of names.
Digits == <<"0", "1", "2", "3", "4", "5", "6", "7", "8", "9">>

RECURSIVE str(_)
\* str(n) for n >= 0, in decimal.
str(n) == IF n < 10 THEN <<Digits[n + 1]>> ELSE str(n \div 10) \o <<Digits[(n % 10) + 1]>>

\* The name of the i-th archive of a batch.
archive_name(i) == <<"z">> \o str(i) \o <<".", "z", "i", "p">>

(***************************************************************************)
(*                      FETCH STAGE: DownloadWorker                        *)
(***************************************************************************)
VARIABLES
    urls,                  \* self.urls: the ordered resource locators
    total_urls,            \* self.total_urls
    dw_current_index,      \* self.current_index (0-based)
    reply,                 \* self.reply: NoReply or the id of a QNetworkReply
    zip_files_downloaded,  \* self.zip_files_downloaded
    is_canceled,           \* self._is_canceled
    timers,                \* pending QTimer.singleShot(0, download_next) turns
    net,                   \* the QNetworkReply objects created by nam.get
    dw_events,             \* signals emitted by the worker, in order
    disk,                  \* archive files written under dest_path
    unhandled,             \* exceptions that left a slot
    outcomes,              \* what happened to each request, in request order
    reports,               \* downloadProgress signals delivered so far
    dw_pc                  \* "new" before start(), "started" after

\* self.reply = None
NoReply == 0

\* The destination directory handed to the constructor.
dest_path == <<<<"w">>>>

\* The locator of the i-th archive of a batch.
Locator(i) == <<<<"h">>, archive_name(i)>>

\* (bytes_received, bytes_total) pairs reported by downloadProgress; Qt reports
\* a total of -1 while the size is unknown.
ProgressReports == {<<1, 2>>, <<1, -1>>}

\* The worker and the replies it talks to, as one value the handlers transform.
DW == [urls |-> urls,
       total_urls |-> total_urls,
       current_index |-> dw_current_index,
       reply |-> reply,
       zip_files_downloaded |-> zip_files_downloaded,
       is_canceled |-> is_canceled,
       timers |-> timers,
       net |-> net,
       events |-> dw_events,
       disk |-> disk,
       unhandled |-> unhandled]

Commit(s) ==
    /\ urls' = s.urls
    /\ total_urls' = s.total_urls
    /\ dw_current_index' = s.current_index
    /\ reply' = s.reply
    /\ zip_files_downloaded' = s.zip_files_downloaded
    /\ is_canceled' = s.is_canceled
    /\ timers' = s.timers
    /\ net' = s.net
    /\ dw_events' = s.events
    /\ disk' = s.disk
    /\ unhandled' = s.unhandled

emit(s, ev) == [s EXCEPT !.events = Append(@, ev)]

\* QTimer.singleShot(0, self.download_next)
singleShot(s) == [s EXCEPT !.timers = @ + 1]

\* An exception leaves the running slot.
raise(s) == [s EXCEPT !.unhandled = @ + 1]

\* self.finished.emit(self.dest_path, self.zip_files_downloaded)
emit_finished(s) == emit(s, <<"finished", dest_path, s.zip_files_downloaded>>)

\* DownloadWorker.start
start(s) == singleShot(emit(s, <<"started", "Iniciando download", s.total_urls>>))

\* self.nam.get(request): a new reply object, its transfer in flight.
nam_get(s) ==
    [s EXCEPT !.net = Append(@, [active |-> TRUE, error |-> "NoError",
                                 ssl |-> FALSE]),
              !.reply = Len(s.net) + 1]

\* download_next without the cancellation check.
download_next_unchecked(s) ==
    IF s.current_index >= s.total_urls THEN emit_finished(s)
    ELSE nam_get(emit(s, <<"file_started",
                           basename(s.urls[s.current_index + 1]),
                           s.current_index>>))

\* DownloadWorker.download_next
download_next(s) ==
    IF s.is_canceled THEN emit_finished(s)
    ELSE IF s.current_index >= s.total_urls THEN emit_finished(s)
    ELSE nam_get(emit(s, <<"file_started",
                           basename(s.urls[s.current_index + 1]),
                           s.current_index>>))

\* cleanup_and_continue that schedules download_next twice.
cleanup_and_continue_twice_scheduled(s) ==
    LET s1 == IF s.reply # NoReply THEN [s EXCEPT !.reply = NoReply] ELSE s
        s2 == emit(s1, <<"file_finished">>)
        s3 == [s2 EXCEPT !.current_index = @ + 1]
    IN  singleShot(singleShot(s3))

\* DownloadWorker.cleanup_and_continue
cleanup_and_continue(s) ==
    LET s1 == IF s.reply # NoReply THEN [s EXCEPT !.reply = NoReply] ELSE s
        s2 == emit(s1, <<"file_finished">>)
        s3 == [s2 EXCEPT !.current_index = @ + 1]
    IN  singleShot(s3)

\* handle_error that cleans up first and reports the error afterwards.
handle_error_late(s) ==
    IF s.is_canceled THEN emit_finished(s)
    ELSE IF s.current_index >= s.total_urls \/ s.reply = NoReply THEN raise(s)
    ELSE emit(cleanup_and_continue(s),
              <<"error", "Erro ao baixar", s.urls[s.current_index + 1]>>)

\* DownloadWorker.handle_error
handle_error(s) ==
    IF s.is_canceled THEN emit_finished(s)
    ELSE IF s.current_index >= s.total_urls \/ s.reply = NoReply THEN raise(s)
    ELSE cleanup_and_continue(
             emit(s, <<"error", "Erro ao baixar", s.urls[s.current_index + 1]>>))

\* The save that keeps only the path of the archive written last.
save_and_continue_keeps_last(s, write_ok) ==
    IF s.current_index >= s.total_urls THEN raise(s)
    ELSE LET zip_name == basename(s.urls[s.current_index + 1])
             zip_path == join(dest_path, zip_name)
         IN  IF write_ok
             THEN cleanup_and_continue(
                      emit([s EXCEPT !.disk = @ \cup {zip_path},
                                     !.zip_files_downloaded = <<zip_path>>],
                           <<"started", "Arquivo salvo com sucesso", zip_name>>))
             ELSE cleanup_and_continue(
                      emit(s, <<"error", "Erro ao salvar o arquivo", zip_name>>))

\* The try block of handle_finished and the cleanup_and_continue after it;
\* write_ok tells whether makedirs/open/write of the archive succeed.
save_and_continue(s, write_ok) ==
    IF s.current_index >= s.total_urls THEN raise(s)
    ELSE LET zip_name == basename(s.urls[s.current_index + 1])
             zip_path == join(dest_path, zip_name)
         IN  IF write_ok
             THEN cleanup_and_continue(
                      emit([s EXCEPT !.disk = @ \cup {zip_path},
                                     !.zip_files_downloaded = Append(@, zip_path)],
                           <<"started", "Arquivo salvo com sucesso", zip_name>>))
             ELSE cleanup_and_continue(
                      emit(s, <<"error", "Erro ao salvar o arquivo", zip_name>>))

\* handle_finished with a guard that takes a cleared handle for a failed
\* reply: the failed item is cleaned up a second time.
handle_finished_twice(s, write_ok) ==
    IF s.reply = NoReply THEN cleanup_and_continue(s)
    ELSE IF s.net[s.reply].error # "NoError" THEN cleanup_and_continue(s)
    ELSE save_and_continue(s, write_ok)

\* handle_finished that swallows a write error without reporting it.
handle_finished_silent(s, write_ok) ==
    IF s.reply = NoReply THEN raise(s)
    ELSE IF s.net[s.reply].error # "NoError" THEN cleanup_and_continue(s)
    ELSE IF write_ok THEN save_and_continue(s, write_ok)
    ELSE cleanup_and_continue(s)

\* DownloadWorker.handle_finished
handle_finished(s, write_ok) ==
    IF s.reply = NoReply THEN raise(s)
    ELSE IF s.net[s.reply].error # "NoError" THEN cleanup_and_continue(s)
    ELSE save_and_continue(s, write_ok)

\* QNetworkReply.abort on reply r: a running transfer is closed with
\* OperationCanceledError, and the reply emits errorOccurred and then finished.
abort(s, r) ==
    IF ~s.net[r].active THEN s
    ELSE LET s1 == [s EXCEPT !.net[r].active = FALSE,
                             !.net[r].error = "OperationCanceledError"]
         IN  handle_finished(handle_error(s1), TRUE)

\* cancel that only sets the flag and leaves the transfer running.
cancel_flag_only(s) == [s EXCEPT !.is_canceled = TRUE]

\* DownloadWorker.cancel
cancel(s) ==
    LET s1 == [s EXCEPT !.is_canceled = TRUE]
    IN  IF s1.reply # NoReply THEN abort(s1, s1.reply) ELSE s1

\* handle_download_progress that reports progress whatever the announced total.
handle_download_progress_unfiltered(s, bytes_received, bytes_total) ==
    IF s.is_canceled
    THEN IF s.reply # NoReply THEN abort(s, s.reply) ELSE s
    ELSE emit(s, <<"download_progress", bytes_received, bytes_total>>)

\* DownloadWorker.handle_download_progress
handle_download_progress(s, bytes_received, bytes_total) ==
    IF s.is_canceled
    THEN IF s.reply # NoReply THEN abort(s, s.reply) ELSE s
    ELSE IF bytes_total > 0
         THEN emit(s, <<"download_progress", bytes_received, bytes_total>>)
         ELSE s

\* The lambda connected to reply.sslErrors.
ssl_errors(s) == emit(s, <<"error", "Erro SSL">>)

DwInit ==
    /\ \E n \in 0..MaxUrls : urls = [i \in 1..n |-> Locator(i)]
    /\ total_urls = Len(urls)
    /\ dw_current_index = 0
    /\ reply = NoReply
    /\ zip_files_downloaded = <<>>
    /\ is_canceled = FALSE
    /\ timers = 0
    /\ net = <<>>
    /\ dw_events = <<>>
    /\ disk = {}
    /\ unhandled = 0
    /\ outcomes = <<>>
    /\ reports = 0
    /\ dw_pc = "new"

\* The caller starts the worker, once.
Start ==
    /\ dw_pc = "new"
    /\ dw_pc' = "started"
    /\ Commit(start(DW))
    /\ UNCHANGED <<outcomes, reports>>

\* The caller cancels; a transfer in flight is aborted inside the call.
Cancel ==
    /\ Commit(cancel(DW))
    /\ outcomes' = IF reply # NoReply /\ net[reply].active
                   THEN Append(outcomes, "aborted") ELSE outcomes
    /\ UNCHANGED <<dw_pc, reports>>

\* The event loop runs one pending zero-delay timer.
DownloadNextTurn ==
    /\ timers > 0
    /\ Commit(download_next([DW EXCEPT !.timers = @ - 1]))
    /\ UNCHANGED <<outcomes, dw_pc, reports>>

\* A reply in flight reports progress.
DownloadProgress ==
    \E r \in 1..Len(net), p \in ProgressReports :
        /\ net[r].active
        /\ reports < MaxProgress
        /\ reports' = reports + 1
        /\ Commit(handle_download_progress(DW, p[1], p[2]))
        /\ UNCHANGED <<outcomes, dw_pc>>

\* A reply in flight reports TLS errors; the transfer can then only fail.
SslErrors ==
    \E r \in 1..Len(net) :
        /\ net[r].active
        /\ ~net[r].ssl
        /\ Commit(ssl_errors([DW EXCEPT !.net[r].ssl = TRUE]))
        /\ UNCHANGED <<outcomes, dw_pc, reports>>

\* A transfer completes without error: the reply emits finished.
ReplySucceeds ==
    \E r \in 1..Len(net), write_ok \in BOOLEAN :
        /\ net[r].active
        /\ ~net[r].ssl
        /\ Commit(handle_finished([DW EXCEPT !.net[r].active = FALSE], write_ok))
        /\ outcomes' = Append(outcomes, IF write_ok THEN "ok" ELSE "write_error")
        /\ UNCHANGED <<dw_pc, reports>>

\* A transfer fails: the reply emits errorOccurred and then finished.
ReplyFails ==
    \E r \in 1..Len(net) :
        /\ net[r].active
        /\ Commit(handle_finished(
                      handle_error([DW EXCEPT !.net[r].active = FALSE,
                                              !.net[r].error = "TransportError"]),
                      TRUE))
        /\ outcomes' = Append(outcomes, "transport_error")
        /\ UNCHANGED <<dw_pc, reports>>

dw_vars == <<urls, total_urls, dw_current_index, reply, zip_files_downloaded,
             is_canceled, timers, net, dw_events, disk, unhandled, outcomes, reports, dw_pc>>

(***************************************************************************)
(*                      EXTRACT STAGE: UnzipWorker                         *)
(***************************************************************************)
VARIABLES
    zip_files,         \* self.zip_files: the ordered archive paths
    total_files,       \* self.total_files
    uz_current_index,  \* self.current_index
    unzip_files,       \* self.unzip_files: the recorded destination paths
    uz_events,         \* signals emitted by the worker, in order
    uz_pc,             \* where the run stands: "new", "unzip_next", "move",
                       \* "update_progress" or "done"
    depth,             \* unzip_next frames on the call stack
    temp_dir,          \* unzip_next's local temp_dir (<<>> when there is none)
    tif_files,         \* the payload files move_tif_files has still to move
    files,             \* the files of the file system (paths)
    dirs,              \* the temporary directories of the file system (paths)
    mkdtemp_count,     \* directories tempfile.mkdtemp has made so far
    archives,          \* what the file at zip_files[i] holds
    moved              \* the relocations shutil.move has carried out: <<src, dst>>

\* str.lower on the characters the model uses.
lower_char(c) ==
    CASE c = "T" -> "t" [] c = "I" -> "i" [] c = "F" -> "f" [] OTHER -> c

lower(name) == [i \in 1..Len(name) |-> lower_char(name[i])]

endswith(name, suffix) ==
    /\ Len(name) >= Len(suffix)
    /\ SubSeq(name, Len(name) - Len(suffix) + 1, Len(name)) = suffix

\* os.path.splitext: the extension starts at the last dot that has a character
\* other than a dot somewhere before it.
splitext(filename) ==
    LET dots == {i \in 1..Len(filename) :
                    /\ filename[i] = "."
                    /\ \E j \in 1..(i - 1) : filename[j] # "."}
    IN  IF dots = {} THEN <<filename, <<>>>>
        ELSE LET d == CHOOSE i \in dots : \A j \in dots : j <= i
             IN  <<SubSeq(filename, 1, d - 1), SubSeq(filename, d, Len(filename))>>

dot_tif == <<".", "t", "i", "f">>

a_tif == <<"a", ".", "t", "i", "f">>

b_TIF == <<"b", ".", "T", "I", "F">>

r_txt == <<"r", ".", "t", "x", "t">>

\* self.unzip_dir_path = zip_dir_path
unzip_dir_path == <<<<"w">>>>

\* The name tempfile.mkdtemp gives the n-th directory it makes.
mkdtemp_name(n) == <<"t", "m", "p">> \o str(n)

\* What an archive file can hold: a valid archive with its entries (relative
\* paths, in the order os.walk meets them), a file that is no archive, or an
\* archive whose extraction fails with another error.  move_fails: shutil.move
\* fails on its payload.
Archive(kind, entries, move_fails) ==
    [kind |-> kind, entries |-> entries, move_fails |-> move_fails]

Archives ==
    { Archive("zip", << <<a_tif>> >>, FALSE),
      Archive("zip", << <<<<"x">>, a_tif>>, <<<<"y">>, a_tif>> >>, FALSE),
      Archive("zip", << <<b_TIF>>, <<r_txt>> >>, FALSE),
      Archive("zip", << <<r_txt>> >>, FALSE),
      Archive("bad", <<>>, FALSE),
      Archive("ioerror", <<>>, FALSE),
      Archive("zip", << <<a_tif>> >>, TRUE) }

\* Files already in the working directory when the run starts.
Preexisting == { {}, {join(unzip_dir_path, a_tif)} }

UZ == [zip_files |-> zip_files,
       total_files |-> total_files,
       current_index |-> uz_current_index,
       unzip_files |-> unzip_files,
       events |-> uz_events,
       pc |-> uz_pc,
       depth |-> depth,
       temp_dir |-> temp_dir,
       tif_files |-> tif_files,
       files |-> files,
       dirs |-> dirs,
       mkdtemp_count |-> mkdtemp_count,
       archives |-> archives,
       moved |-> moved]

UzCommit(s) ==
    /\ zip_files' = s.zip_files
    /\ total_files' = s.total_files
    /\ uz_current_index' = s.current_index
    /\ unzip_files' = s.unzip_files
    /\ uz_events' = s.events
    /\ uz_pc' = s.pc
    /\ depth' = s.depth
    /\ temp_dir' = s.temp_dir
    /\ tif_files' = s.tif_files
    /\ files' = s.files
    /\ dirs' = s.dirs
    /\ mkdtemp_count' = s.mkdtemp_count
    /\ archives' = s.archives
    /\ moved' = s.moved

\* os.path.exists
exists(s, path) == path \in s.files \/ path \in s.dirs

is_under(path, dir) == Len(path) > Len(dir) /\ SubSeq(path, 1, Len(dir)) = dir

\* UnzipWorker.create_temp_dir: a fresh, uniquely named directory.
create_temp_dir(s) ==
    LET d == join(unzip_dir_path, mkdtemp_name(s.mkdtemp_count + 1))
    IN  [s EXCEPT !.mkdtemp_count = @ + 1, !.dirs = @ \cup {d}, !.temp_dir = d]

\* UnzipWorker.extract_zip, for an archive that extracts: every entry is
\* written under extract_dir.
extract_zip(s, entries, extract_dir) ==
    [s EXCEPT !.files = @ \cup {extract_dir \o entries[i] : i \in 1..Len(entries)}]

\* find_tif_files that compares the suffix without lowering the name.
find_tif_files_case_sensitive(s, entries, path) ==
    IF path \notin s.dirs THEN <<>>
    ELSE LET full == [i \in 1..Len(entries) |-> path \o entries[i]]
         IN  SelectSeq(full, LAMBDA f : f \in s.files /\ endswith(basename(f), dot_tif))

\* UnzipWorker.find_tif_files: the extracted files whose lower-cased name ends
\* in ".tif", in walk order.
find_tif_files(s, entries, path) ==
    IF path \notin s.dirs THEN <<>>
    ELSE LET full == [i \in 1..Len(entries) |-> path \o entries[i]]
         IN  SelectSeq(full, LAMBDA f : f \in s.files /\ endswith(lower(basename(f)), dot_tif))

\* UnzipWorker.cleanup_temp_dir: shutil.rmtree(temp_dir, ignore_errors=True)
cleanup_temp_dir(s, dir) ==
    [s EXCEPT !.dirs = @ \ {dir},
              !.files = {f \in @ : ~is_under(f, dir)}]

\* UnzipWorker.emit_tif_warning
emit_tif_warning(s, zip_path) ==
    emit(s, <<"error", "Aviso: Nenhum arquivo TIF encontrado", basename(zip_path)>>)

\* UnzipWorker.emit_corrupted_error
emit_corrupted_error(s, zip_path) ==
    emit(s, <<"error", "Erro: corrompido", basename(zip_path)>>)

\* UnzipWorker.emit_generic_error
emit_generic_error(s, zip_path) ==
    emit(s, <<"error", "Erro inesperado ao descompactar", basename(zip_path)>>)

\* The finally clause of unzip_next is reached: update_progress runs next.
to_update_progress(s) ==
    [s EXCEPT !.pc = "update_progress", !.tif_files = <<>>, !.temp_dir = <<>>]

\* The collision test made once instead of in a loop: name_1 ext is taken
\* without looking whether it exists.
unused_name_once(s, filename, path, counter) ==
    IF exists(s, path)
    THEN LET ne == splitext(filename)
         IN  join(unzip_dir_path, ne[1] \o <<"_">> \o str(counter) \o ne[2])
    ELSE path

RECURSIVE unused_name(_, _, _, _)
\* The while loop of move_tif_files: the first of dest_path, name_1ext,
\* name_2ext, ... that does not exist.
unused_name(s, filename, path, counter) ==
    IF exists(s, path)
    THEN LET ne == splitext(filename)
         IN  unused_name(s, filename,
                         join(unzip_dir_path, ne[1] \o <<"_">> \o str(counter) \o ne[2]),
                         counter + 1)
    ELSE path

\* shutil.move(src, dst)
shutil_move(s, src, dst) ==
    [s EXCEPT !.files = (@ \ {src}) \cup {dst},
              !.moved = Append(@, <<src, dst>>)]

\* move_tif_file that records the path twice: the path tried first and the
\* path the file ends at.
move_tif_file_recorded_twice(s) ==
    LET tif_file == Head(s.tif_files)
        filename == basename(tif_file)
        first_path == join(unzip_dir_path, filename)
        s0 == [s EXCEPT !.unzip_files = Append(@, first_path)]
        final_path == unused_name(s0, filename, first_path, 1)
        s1 == [s0 EXCEPT !.unzip_files = Append(@, final_path)]
        zip_file_path == s.zip_files[s.current_index + 1]
    IN  IF s.archives[s.current_index + 1].move_fails
        THEN to_update_progress(emit_generic_error(s1, zip_file_path))
        ELSE LET s2 == [shutil_move(s1, tif_file, final_path)
                            EXCEPT !.tif_files = Tail(@)]
             IN  IF s2.tif_files = <<>>
                 THEN to_update_progress(cleanup_temp_dir(s2, s2.temp_dir))
                 ELSE s2

\* One iteration of the for loop of UnzipWorker.move_tif_files, on the first
\* file still to move; after the last one unzip_next removes the temporary
\* directory.  A failing shutil.move is caught by unzip_next's except clause.
move_tif_file(s) ==
    LET tif_file == Head(s.tif_files)
        filename == basename(tif_file)
        first_path == join(unzip_dir_path, filename)
        s1 == [s EXCEPT !.unzip_files = Append(@, first_path)]
        final_path == unused_name(s1, filename, first_path, 1)
        zip_file_path == s.zip_files[s.current_index + 1]
    IN  IF s.archives[s.current_index + 1].move_fails
        THEN to_update_progress(emit_generic_error(s1, zip_file_path))
        ELSE LET s2 == [shutil_move(s1, tif_file, final_path)
                            EXCEPT !.tif_files = Tail(@)]
             IN  IF s2.tif_files = <<>>
                 THEN to_update_progress(cleanup_temp_dir(s2, s2.temp_dir))
                 ELSE s2

\* An except clause that reports and returns without reaching update_progress:
\* the batch stops at the corrupt archive.
on_bad_zip_halts(s, zip_file_path) ==
    [emit_corrupted_error(s, zip_file_path)
        EXCEPT !.pc = "done", !.depth = 0, !.tif_files = <<>>, !.temp_dir = <<>>]

\* The except zipfile.BadZipFile clause of unzip_next, then its finally clause.
on_bad_zip(s, zip_file_path) ==
    to_update_progress(emit_corrupted_error(s, zip_file_path))

\* The try statement of unzip_next, up to its finally clause.
process_archive(s) ==
    LET zip_file_path == s.zip_files[s.current_index + 1]
        archive == s.archives[s.current_index + 1]
        s1 == create_temp_dir(s)
    IN  IF archive.kind = "bad"
        THEN on_bad_zip(s1, zip_file_path)
        ELSE IF archive.kind # "zip"
        THEN to_update_progress(emit_generic_error(s1, zip_file_path))
        ELSE LET s2 == extract_zip(s1, archive.entries, s1.temp_dir)
                 found == find_tif_files(s2, archive.entries, s2.temp_dir)
             IN  IF found # <<>>
                 THEN [s2 EXCEPT !.pc = "move", !.tif_files = found]
                 ELSE to_update_progress(
                          cleanup_temp_dir(emit_tif_warning(s2, zip_file_path),
                                           s2.temp_dir))

\* self.finished.emit(self.unzip_files); every unzip_next frame then returns.
uz_emit_finished(s) ==
    [emit(s, <<"finished", s.unzip_files>>) EXCEPT !.pc = "done", !.depth = 0]

\* unzip_next with the end test off by one.
unzip_next_early(s) ==
    IF s.current_index + 1 >= s.total_files
    THEN uz_emit_finished(s)
    ELSE process_archive(s)

\* UnzipWorker.unzip_next up to its finally clause.
unzip_next(s) ==
    IF s.current_index >= s.total_files
    THEN uz_emit_finished(s)
    ELSE process_archive(s)

\* update_progress that advances the index twice.
update_progress_twice(s) ==
    LET s1 == [s EXCEPT !.current_index = @ + 2]
        s2 == emit(s1, <<"progress", s1.current_index, s1.total_files>>)
    IN  [s2 EXCEPT !.pc = "unzip_next", !.depth = @ + 1]

\* UnzipWorker.update_progress, up to its call of unzip_next.
update_progress(s) ==
    LET s1 == [s EXCEPT !.current_index = @ + 1]
        s2 == emit(s1, <<"progress", s1.current_index, s1.total_files>>)
    IN  [s2 EXCEPT !.pc = "unzip_next", !.depth = @ + 1]

\* UnzipWorker.start, up to its call of unzip_next.
uz_start(s) ==
    [emit(s, <<"started", "Descompactando", s.total_files>>)
        EXCEPT !.pc = "unzip_next", !.depth = 1]

UzInit ==
    /\ archives \in SeqsUpTo(Archives, MaxArchives)
    /\ zip_files = [i \in 1..Len(archives) |-> join(unzip_dir_path, archive_name(i))]
    /\ total_files = Len(zip_files)
    /\ uz_current_index = 0
    /\ unzip_files = <<>>
    /\ uz_events = <<>>
    /\ uz_pc = "new"
    /\ depth = 0
    /\ temp_dir = <<>>
    /\ tif_files = <<>>
    /\ \E pre \in Preexisting : files = pre \cup Range(zip_files)
    /\ dirs = {}
    /\ mkdtemp_count = 0
    /\ moved = <<>>

\* The caller starts the worker, once.
UnzipStart ==
    /\ uz_pc = "new"
    /\ UzCommit(uz_start(UZ))

UnzipNext ==
    /\ uz_pc = "unzip_next"
    /\ UzCommit(unzip_next(UZ))

MoveTifFile ==
    /\ uz_pc = "move"
    /\ UzCommit(move_tif_file(UZ))

UpdateProgress ==
    /\ uz_pc = "update_progress"
    /\ UzCommit(update_progress(UZ))

uz_vars == <<zip_files, total_files, uz_current_index, unzip_files, uz_events,
             uz_pc, depth, temp_dir, tif_files, files, dirs, mkdtemp_count,
             archives, moved>>

vars == <<dw_vars, uz_vars>>

\* A worker that is constructed over an empty batch and never started.
DwIdle ==
    /\ DwInit
    /\ urls = <<>>

UzIdle ==
    /\ UzInit
    /\ archives = <<>>
    /\ files = {}

FetchInit == DwInit /\ UzIdle

ExtractInit == UzInit /\ DwIdle

FetchNext ==
    \/ Start /\ UNCHANGED uz_vars
    \/ Cancel /\ UNCHANGED uz_vars
    \/ DownloadNextTurn /\ UNCHANGED uz_vars
    \/ DownloadProgress /\ UNCHANGED uz_vars
    \/ SslErrors /\ UNCHANGED uz_vars
    \/ ReplySucceeds /\ UNCHANGED uz_vars
    \/ ReplyFails /\ UNCHANGED uz_vars

ExtractNext ==
    \/ UnzipStart /\ UNCHANGED dw_vars
    \/ UnzipNext /\ UNCHANGED dw_vars
    \/ MoveTifFile /\ UNCHANGED dw_vars
    \/ UpdateProgress /\ UNCHANGED dw_vars

\* The Fetch Stage on its own, and the Extract Stage on its own.
SpecFetch == FetchInit /\ [][FetchNext]_vars

SpecExtract == ExtractInit /\ [][ExtractNext]_vars

(***************************************************************************)
(*                       Properties of the Fetch Stage                     *)
(***************************************************************************)
\* The positions of the log that hold signal sig.
At(log, sig) == {p \in 1..Len(log) : log[p][1] = sig}

Count(log, sig) == Cardinality(At(log, sig))

\* The events a step appends to the log.
NewDwEvents == SubSeq(dw_events', Len(dw_events) + 1, Len(dw_events'))

\* The run is over: the worker was started, no turn is pending and no transfer
\* is in flight.
DwQuiescent ==
    /\ dw_pc = "started"
    /\ timers = 0
    /\ \A r \in 1..Len(net) : ~net[r].active

IsTransportError(e) == e[1] = "error" /\ e[2] = "Erro ao baixar"

\* The index of the item being transferred when the event at position p was
\* emitted: that of the last file_started before p.
ItemAt(p) ==
    LET starts == {q \in At(dw_events, "file_started") : q < p}
    IN  dw_events[CHOOSE q \in starts : \A q2 \in starts : q2 <= q][3]

\* The paths of the successful items among the first k, in locator order.
RECURSIVE SuccessfulPaths(_)
SuccessfulPaths(k) ==
    IF k = 0 THEN <<>>
    ELSE IF k <= Len(outcomes) /\ outcomes[k] = "ok"
         THEN Append(SuccessfulPaths(k - 1), join(dest_path, basename(urls[k])))
         ELSE SuccessfulPaths(k - 1)

\* C1: the terminal finished(dest_path, completed list) event is emitted exactly
\* once in every run: never twice, and once the run is over never zero times.
C1_FinishedExactlyOnce ==
    /\ Count(dw_events, "finished") <= 1
    /\ DwQuiescent => Count(dw_events, "finished") = 1

\* C2: a transport error on locator i, with no cancellation requested, emits an
\* error event naming locator i followed by the single item-finished of item
\* i, advances current_index by one per finished item, never starts locator i
\* again nor skips locator i+1, and the next turn starts locator i+1 or, when
\* there is none (or cancel() came first), emits the terminal finished event.
C2_TransportErrorAdvancesOnce ==
    /\ dw_current_index = Count(dw_events, "file_finished")
    /\ \A p \in At(dw_events, "file_started"), q \in At(dw_events, "file_started") :
          p < q => dw_events[p][3] < dw_events[q][3]
    /\ \A p \in 1..Len(dw_events) :
          IsTransportError(dw_events[p]) =>
              LET i == ItemAt(p)
              IN  /\ dw_events[p][3] = urls[i + 1]
                  /\ p + 1 <= Len(dw_events)
                  /\ dw_events[p + 1] = <<"file_finished">>
                  /\ Cardinality({q \in At(dw_events, "file_finished") :
                                     ItemAt(q) = i}) = 1
                  /\ p + 2 <= Len(dw_events) =>
                        \/ /\ i + 1 < total_urls
                           /\ dw_events[p + 2] =
                                  <<"file_started", basename(urls[i + 2]), i + 1>>
                        \/ /\ i + 1 >= total_urls \/ is_canceled
                           /\ dw_events[p + 2][1] = "finished"

\* C2 witness: locator 0 failed with a transport error and locator 1 was started.
C2_Witness ==
    /\ ~is_canceled
    /\ Len(dw_events) >= 5
    /\ \E p \in 1..Len(dw_events) - 2 :
          /\ IsTransportError(dw_events[p])
          /\ dw_events[p + 2][1] = "file_started"
          /\ dw_events[p + 2][3] = ItemAt(p) + 1

\* C3: cancel() during the transfer of locator i aborts the transfer, appends
\* no path, emits item-finished for i, lets no later locator start, and the
\* next turn emits finished with the paths completed before the cancellation.
C3_CancelInFlight ==
    [][ /\ (~is_canceled /\ is_canceled' /\ reply # NoReply) =>
              /\ ~net'[reply].active
              /\ net'[reply].error = "OperationCanceledError"
              /\ reply' = NoReply
              /\ zip_files_downloaded' = zip_files_downloaded
              /\ Len(SelectSeq(NewDwEvents, LAMBDA e : e[1] = "file_finished")) = 1
              /\ dw_current_index' = dw_current_index + 1
              /\ timers' = timers + 1
        /\ is_canceled =>
              /\ zip_files_downloaded' = zip_files_downloaded
              /\ SelectSeq(NewDwEvents, LAMBDA e : e[1] = "file_started") = <<>>
              /\ net' = net
        /\ (is_canceled /\ timers' < timers) =>
              dw_events' = Append(dw_events,
                                  <<"finished", dest_path, zip_files_downloaded>>)
      ]_vars

\* C3 witness: a transfer was aborted by cancel() after an earlier item was
\* saved, and the turn that follows has emitted finished.
C3_Witness ==
    /\ is_canceled
    /\ "aborted" \in Range(outcomes)
    /\ zip_files_downloaded # <<>>
    /\ timers = 0
    /\ Last(dw_events) = <<"finished", dest_path, zip_files_downloaded>>

\* C4: cancel() between item k-1 and item k gives a terminal finished event
\* whose list is exactly the paths of the successful items among the first k,
\* in locator order (empty for k = 0), and locator k is never started.
C4_CancelBetweenItems ==
    /\ [](is_canceled /\ "aborted" \notin Range(outcomes) =>
             /\ Len(outcomes) = dw_current_index
             /\ \A p \in At(dw_events, "file_started") :
                   dw_events[p][3] < dw_current_index
             /\ \A p \in At(dw_events, "finished") :
                   dw_events[p] =
                       <<"finished", dest_path, SuccessfulPaths(dw_current_index)>>)
    /\ [][(is_canceled /\ "aborted" \notin Range(outcomes) /\ timers' < timers) =>
             /\ dw_events' =
                    Append(dw_events,
                           <<"finished", dest_path, SuccessfulPaths(dw_current_index)>>)
             /\ dw_current_index' = dw_current_index
             /\ reply' = NoReply]_vars

\* C4 witness: cancelled after item 0 was saved and item 1 failed, before item
\* 2 starts; the terminal event carries the one saved path.
C4_Witness ==
    /\ is_canceled
    /\ "aborted" \notin Range(outcomes)
    /\ dw_current_index = 2
    /\ dw_current_index < total_urls
    /\ Len(zip_files_downloaded) = 1
    /\ Last(dw_events) = <<"finished", dest_path, zip_files_downloaded>>

\* C5 (as claimed): the list of every terminal event has length <= N, and length
\* < N only if an error event was emitted before it.
C5_ShortOnlyAfterError ==
    \A p \in At(dw_events, "finished") :
        /\ Len(dw_events[p][3]) <= total_urls
        /\ Len(dw_events[p][3]) < total_urls =>
              \E q \in At(dw_events, "error") : q < p

\* C5 (amended): the list of every terminal event has length <= N, and length
\* < N only if an error event was emitted before it or cancel() was called.
C5_ShortOnlyAfterErrorOrCancel ==
    \A p \in At(dw_events, "finished") :
        /\ Len(dw_events[p][3]) <= total_urls
        /\ Len(dw_events[p][3]) < total_urls =>
              \/ \E q \in At(dw_events, "error") : q < p
              \/ is_canceled

\* C5 witness: an uncancelled run ended with fewer paths than locators after a
\* write error.
C5_Witness ==
    /\ ~is_canceled
    /\ \E p \in At(dw_events, "finished") :
          /\ Len(dw_events[p][3]) < total_urls
          /\ \E q \in At(dw_events, "error") :
                q < p /\ dw_events[q][2] = "Erro ao salvar o arquivo"

(***************************************************************************)
(*                      Properties of the Extract Stage                    *)
(***************************************************************************)
\* One step of the run, and the run from state s to its end.
uz_step(s) ==
    CASE s.pc = "new" -> uz_start(s)
      [] s.pc = "unzip_next" -> unzip_next(s)
      [] s.pc = "move" -> move_tif_file(s)
      [] s.pc = "update_progress" -> update_progress(s)
      [] OTHER -> s

RECURSIVE uz_run(_)
uz_run(s) == IF s.pc = "done" THEN s ELSE uz_run(uz_step(s))

\* Sequence s without its i-th element.
Without(s, i) == SubSeq(s, 1, i - 1) \o SubSeq(s, i + 1, Len(s))

\* The not yet started worker s, constructed without archive i.
WithoutArchive(s, i) ==
    [s EXCEPT !.zip_files = Without(@, i),
              !.archives = Without(@, i),
              !.total_files = @ - 1]

\* The error events of a log that tell about other archives than the one named.
ErrorsNotAbout(log, name) ==
    SelectSeq(log, LAMBDA e : e[1] = "error" /\ e[3] # name)

ErrorsAbout(log, name) ==
    SelectSeq(log, LAMBDA e : e[1] = "error" /\ e[3] = name)

NewUzEvents == SubSeq(uz_events', Len(uz_events) + 1, Len(uz_events'))

\* unzip_next is about to open a file that is no archive.
AtCorruptArchive ==
    /\ uz_pc = "unzip_next"
    /\ uz_current_index < total_files
    /\ archives[uz_current_index + 1].kind = "bad"

Destinations(rel) == [k \in 1..Len(rel) |-> rel[k][2]]

\* C6: the temporary subdirectory of an archive is removed before the stage
\* advances on every exit path, so none is left when finished is emitted.
C6_TempDirRemoved ==
    uz_pc \in {"update_progress", "done"} => dirs = {}

\* C7: every recorded path is the final location of the file relocated for
\* it: the result list is the list of shutil.move destinations, without a
\* path recorded twice and without a path for a failed relocation.
C7_RecordedIsFinal ==
    uz_pc # "move" =>
        /\ unzip_files = Destinations(moved)
        /\ \A i \in 1..Len(unzip_files), j \in 1..Len(unzip_files) :
              i # j => unzip_files[i] # unzip_files[j]

DwSignals == SelectSeq(dw_events, LAMBDA e : e[1] # "started")

\* The run is over, every transfer and every write succeeded and cancel() was
\* never called.
AllSucceeded ==
    /\ DwQuiescent
    /\ ~is_canceled
    /\ Len(outcomes) = total_urls
    /\ \A k \in 1..Len(outcomes) : outcomes[k] = "ok"

\* C11: in a run where every transfer and every write succeeds and cancel() is
\* never called, the events are, for each index i = 0..N-1 in order, one
\* item-started(name_i, i), then zero or more progress(received, total) with
\* total > 0, then one item-finished; after the last item exactly one
\* finished(dest_path, list) whose list holds the N paths in locator order; and
\* no error event.
C11_AllSuccessEventOrder ==
    AllSucceeded =>
        LET L == DwSignals
            n == Len(L)
            kind(p) == L[p][1]
        IN  /\ Count(dw_events, "error") = 0
            /\ Count(dw_events, "file_started") = total_urls
            /\ Count(dw_events, "file_finished") = total_urls
            /\ Count(dw_events, "finished") = 1
            /\ n >= 1
            /\ kind(1) = IF total_urls = 0 THEN "finished" ELSE "file_started"
            /\ L[n] = <<"finished", dest_path,
                        [i \in 1..total_urls |-> join(dest_path, basename(urls[i]))]>>
            /\ \A p \in 1..n :
                  /\ kind(p) = "file_started" =>
                        /\ LET i == Cardinality({q \in 1..(p - 1) : kind(q) = "file_started"})
                           IN  L[p] = <<"file_started", basename(urls[i + 1]), i>>
                        /\ kind(p + 1) \in {"download_progress", "file_finished"}
                  /\ kind(p) = "download_progress" =>
                        /\ L[p][3] > 0
                        /\ kind(p + 1) \in {"download_progress", "file_finished"}
                  /\ kind(p) = "file_finished" =>
                        kind(p + 1) \in {"file_started", "finished"}
                  /\ kind(p) = "finished" => p = n

\* C11 witness: a batch of two or more locators ran to its end with every
\* item saved, and a progress event was reported on the way.
C11_Witness ==
    /\ AllSucceeded
    /\ total_urls >= 2
    /\ Count(dw_events, "download_progress") >= 1
    /\ Count(dw_events, "finished") = 1

\* The payload files of an archive: its entries whose name ends in .tif,
\* whatever the case of the letters.
Payload(a) ==
    {k \in 1..Len(a.entries) : endswith(lower(Last(a.entries[k])), dot_tif)}

\* An archive that opens and holds no payload file.
PayloadFree(a) == a.kind = "zip" /\ Payload(a) = {}

\* An archive that extracts and whose payload files are all relocated.
Extracts(a) == a.kind = "zip" /\ Payload(a) # {} /\ ~a.move_fails

\* unzip_next is about to open an archive without payload file.
AtPayloadFreeArchive ==
    /\ uz_pc = "unzip_next"
    /\ uz_current_index < total_files
    /\ PayloadFree(archives[uz_current_index + 1])

TifWarning(i) ==
    <<"error", "Aviso: Nenhum arquivo TIF encontrado", basename(zip_files[i])>>

\* C12: an archive that opens but holds no payload file gives exactly one
\* warning on the error channel naming that archive, appends nothing to the
\* result list, and the index then advances by one; an archive that extracts
\* successfully with at least one payload file gives no error event; a batch of
\* one archive with one .tif file followed by one archive with none ends with
\* exactly one error event and a result list of length 1.
C12_PayloadFreeWarnsOnce ==
    /\ [](\A i \in 1..Len(archives) :
             /\ (PayloadFree(archives[i]) /\ uz_current_index >= i) =>
                    ErrorsAbout(uz_events, basename(zip_files[i])) = <<TifWarning(i)>>
             /\ Extracts(archives[i]) =>
                    ErrorsAbout(uz_events, basename(zip_files[i])) = <<>>)
    /\ []((/\ uz_pc = "done"
           /\ Len(archives) = 2
           /\ Extracts(archives[1]) /\ Cardinality(Payload(archives[1])) = 1
           /\ PayloadFree(archives[2])) =>
              /\ Count(uz_events, "error") = 1
              /\ Len(unzip_files) = 1)
    /\ [][AtPayloadFreeArchive =>
             /\ unzip_files' = unzip_files
             /\ moved' = moved
             /\ NewUzEvents = <<TifWarning(uz_current_index + 1)>>
             /\ uz_current_index' = uz_current_index
             /\ uz_pc' = "update_progress"]_vars
    /\ [][uz_pc = "update_progress" =>
             uz_current_index' = uz_current_index + 1]_vars

\* C12 witness: the batch of an archive with one .tif file followed by an
\* archive with none has been processed to its end.
C12_Witness ==
    /\ uz_pc = "done"
    /\ Len(archives) = 2
    /\ Extracts(archives[1]) /\ Cardinality(Payload(archives[1])) = 1
    /\ PayloadFree(archives[2])
    /\ Count(uz_events, "error") = 1
    /\ uz_current_index = 2

\* The Fetch stage under the scheduling the event loop gives it: a pending
\* zero-delay turn is eventually run, and a transfer in flight eventually
\* reports its completion, with or without an error.
SpecFetchFair ==
    /\ FetchInit
    /\ [][FetchNext]_vars
    /\ WF_vars(DownloadNextTurn /\ UNCHANGED uz_vars)
    /\ WF_vars((ReplySucceeds \/ ReplyFails) /\ UNCHANGED uz_vars)

\* Every started run eventually emits the terminal finished event.
C13_EventuallyFinished ==
    (dw_pc = "started") ~> (Count(dw_events, "finished") >= 1)

\* C13: under fair scheduling, every run of the Fetch stage eventually emits
\* finished, and no per-item failure (transport error, write error, transport
\* error report) leaves the stage stuck or raises an unhandled failure out of
\* a callback.
C13_TerminatesNoUnhandled ==
    /\ C13_EventuallyFinished
    /\ [](unhandled = 0)

\* The number of item-finished events emitted before position p of the log.
FinishedBefore(p) ==
    Cardinality({q \in At(dw_events, "file_finished") : q < p})

\* C14: every error event about item i (transport error, SSL error, write
\* error) is emitted while item i is the current item, after its item-started
\* and before its item-finished; no error about item i comes after the
\* item-finished of item i, and once the run is over every reported item has
\* its item-finished after the report.
C14_ErrorBeforeItemFinished ==
    \A p \in At(dw_events, "error") :
        /\ \E q \in At(dw_events, "file_started") : q < p
        /\ LET i == ItemAt(p)
               e == dw_events[p]
           IN  /\ FinishedBefore(p) = i
               /\ e[2] = "Erro ao baixar" => e[3] = urls[i + 1]
               /\ e[2] = "Erro ao salvar o arquivo" => e[3] = basename(urls[i + 1])
               /\ DwQuiescent =>
                     \E q \in At(dw_events, "file_finished") :
                         q > p /\ FinishedBefore(q) = i

\* C14 witness: an SSL error, a transport error and a write error were
\* reported and the run is over.
C14_Witness ==
    /\ DwQuiescent
    /\ \E p \in At(dw_events, "error") : dw_events[p][2] = "Erro SSL"
    /\ \E p \in At(dw_events, "error") : dw_events[p][2] = "Erro ao baixar"
    /\ \E p \in At(dw_events, "error") : dw_events[p][2] = "Erro ao salvar o arquivo"

\* C15: the Extract stage processes one archive per scheduling turn: the step
\* that finishes archive i hands the processing of archive i+1 to a fresh turn
\* of the host's scheduler and returns, so the processing of an archive never
\* runs inside the step of the archive before it: no unzip_next frame is ever
\* on the call stack below another.
C15_OneArchivePerTurn == depth <= 1

\* The number of payload files held by the first k archives of the batch.
RECURSIVE PayloadUpTo(_)
PayloadUpTo(k) ==
    IF k = 0 THEN 0
    ELSE PayloadUpTo(k - 1)
         + (IF archives[k].kind = "zip" THEN Cardinality(Payload(archives[k])) ELSE 0)

\* No archive is being processed: unzip_next is about to be entered, or the
\* run has not started or is over.
BetweenArchives == uz_pc \in {"new", "unzip_next", "done"}

\* C16 as stated: in every reachable state the result list is no longer than
\* current_index, whatever the archives contain, archives with more than one
\* payload file included.
C16_ResultAtMostIndex == Len(unzip_files) <= uz_current_index

\* C16 amended: in every reachable state the result list is no longer than the
\* number of payload files held by the archives processed so far, the one
\* being processed included; between archives it is no longer than the number
\* of payload files held by the first current_index archives, and so no longer
\* than current_index when no archive holds more than one payload file.
C16_ResultAtMostPayload ==
    /\ Len(unzip_files) <=
           PayloadUpTo(IF BetweenArchives THEN uz_current_index
                                          ELSE uz_current_index + 1)
    /\ (/\ BetweenArchives
        /\ \A i \in 1..Len(archives) : Cardinality(Payload(archives[i])) <= 1) =>
           Len(unzip_files) <= uz_current_index

\* C16 witness: the run is over and an archive with two payload files made
\* the result list longer than the number of archives processed.
C16_Witness ==
    /\ uz_pc = "done"
    /\ \E i \in 1..Len(archives) : Cardinality(Payload(archives[i])) >= 2
    /\ Len(unzip_files) > uz_current_index

\* Sequence s is a prefix of sequence t.
IsPrefix(s, t) == Len(s) <= Len(t) /\ SubSeq(t, 1, Len(s)) = s

\* C17: in the Fetch stage current_index never decreases and stays within
\* 0..N; a transfer is started only while current_index < N; the cancellation
\* flag, once set, is never cleared; and the completed-path list only grows by
\* appending: no entry is ever removed or changed.
C17_FetchInvariants ==
    /\ [](dw_current_index \in 0..total_urls)
    /\ [][/\ dw_current_index' >= dw_current_index
          /\ is_canceled => is_canceled'
          /\ IsPrefix(zip_files_downloaded, zip_files_downloaded')
          /\ Len(net') > Len(net) =>
                /\ dw_current_index < total_urls
                /\ dw_current_index' = dw_current_index
                /\ Len(net') = Len(net) + 1
         ]_vars

\* C17 witness: two items were saved, the transfer of a third one was started
\* below the end of the batch and cancelled, and the index is at N.
C17_Witness ==
    /\ is_canceled
    /\ total_urls >= 3
    /\ dw_current_index = total_urls
    /\ Len(zip_files_downloaded) >= 2
    /\ Len(net) = total_urls

\* The k-th target tried for a payload file: its base name in the working
\* directory for k = 0, then name_k ext.
Candidate(filename, k) ==
    IF k = 0 THEN join(unzip_dir_path, filename)
    ELSE LET ne == splitext(filename)
         IN  join(unzip_dir_path, ne[1] \o <<"_">> \o str(k) \o ne[2])

\* C18: the relocation never overwrites an existing file: at the moment of
\* the move nothing exists at the chosen target, the target is the base name
\* in the working directory when that name is unused and otherwise name_k ext
\* for the least k >= 1 whose name is unused, and every file that was in the
\* working directory before the move is still there after it.
C18_MoveNeverOverwrites ==
    [][Len(moved') > Len(moved) =>
          LET src == Last(moved')[1]
              dst == Last(moved')[2]
              filename == basename(src)
          IN  /\ Len(moved') = Len(moved) + 1
              /\ src \in files
              /\ dst \notin files /\ dst \notin dirs
              /\ \E k \in 0..Cardinality(files) :
                    /\ dst = Candidate(filename, k)
                    /\ \A j \in 0..(k - 1) :
                          Candidate(filename, j) \in files \cup dirs
              /\ \A f \in files : ~is_under(f, temp_dir) => f \in files'
              /\ dst \in files'
      ]_vars

\* C18 witness: a.tif and a_1.tif were both taken in the working directory
\* and a payload file a.tif was relocated to a_2.tif.
C18_Witness ==
    /\ join(unzip_dir_path, a_tif) \in files
    /\ join(unzip_dir_path, <<"a", "_", "1", ".", "t", "i", "f">>) \in files
    /\ \E k \in 1..Len(moved) :
          /\ basename(moved[k][1]) = a_tif
          /\ moved[k][2] = join(unzip_dir_path, <<"a", "_", "2", ".", "t", "i", "f">>)

\* C19: the terminal finished event is the last event of a Fetch run: once it
\* has been emitted no further event (item-started, progress, item-finished,
\* error, started) is emitted and neither current_index nor the completed-path
\* list changes, in every interleaving, a cancel() during a transfer in flight
\* included.
C19_FinishedIsLast ==
    /\ [](\A p \in At(dw_events, "finished") : p = Len(dw_events))
    /\ [][Count(dw_events, "finished") >= 1 =>
             /\ dw_events' = dw_events
             /\ dw_current_index' = dw_current_index
             /\ zip_files_downloaded' = zip_files_downloaded]_vars

\* The replies whose transfer is in flight.
InFlight == {r \in 1..Len(net) : net[r].active}

\* C20: at most one transfer is in flight at any time; download_next issues a
\* request only when reply is None and no transfer is in flight; at most one
\* download_next turn is pending at any time; and the item-started events
\* carry strictly increasing indices.
C20_OneTransferAtATime ==
    /\ [](Cardinality(InFlight) <= 1)
    /\ [](timers <= 1)
    /\ [](InFlight # {} => InFlight = {reply})
    /\ [](\A p \in At(dw_events, "file_started"), q \in At(dw_events, "file_started") :
             p < q => dw_events[p][3] < dw_events[q][3])
    /\ [][Len(net') > Len(net) =>
             /\ reply = NoReply
             /\ InFlight = {}
             /\ Len(net') = Len(net) + 1
             /\ reply' = Len(net')]_vars

\* C20 witness: the transfer of a second item is in flight after the first
\* item was finished.
C20_Witness ==
    /\ Count(dw_events, "file_finished") >= 1
    /\ Count(dw_events, "file_started") >= 2
    /\ InFlight = {reply}
    /\ timers = 0

\* The worker as handle_finished finds it when reply r, in flight before the
\* step, completes in the step: at once when the transfer succeeded, after the
\* errorOccurred slot handle_error when it failed or was aborted by cancel().
HandleFinishedEntry(r) ==
    IF net'[r].error = "NoError"
    THEN [DW EXCEPT !.net[r].active = FALSE]
    ELSE handle_error([DW EXCEPT !.is_canceled = is_canceled',
                                 !.net[r].active = FALSE,
                                 !.net[r].error = net'[r].error])

\* C21: whenever handle_finished runs for a reply the worker still holds that
\* reply's handle (self.reply is not None), also when the reply fired
\* errorOccurred before finished; and cleanup_and_continue runs at most once
\* per reply.
C21_HandleHeldAtFinished ==
    /\ [][\A r \in InFlight :
             ~net'[r].active => HandleFinishedEntry(r).reply = r]_vars
    /\ [](Count(dw_events, "file_finished")
              <= Cardinality({r \in 1..Len(net) : ~net[r].active}))
    /\ [][dw_current_index' <= dw_current_index + 1]_vars

====
